---- MODULE Spec2Model ----
(***************************************************************************)
(* Mini LIMS (src/app.py): the persistence store, the identifier           *)
(* sequencer, the audit recorder and the form handlers of the Streamlit    *)
(* script, as a state machine.                                             *)
(*                                                                         *)
(* Texts (TEXT columns, typed inputs, formatted identifiers) are sequences *)
(* of one-character strings, so that str(), int(), strip() and the         *)
(* f-string of next_sample_id are computed rather than assumed.            *)
(* Entity kinds, audit actions, roles and QC types are TLA+ strings.        *)
(* Columns no property reads (project, matrix, priority, ...) are left out *)
(* of the rows.                                                            *)
(* A timestamp (now_ts) is abstracted to the calendar year of the wall     *)
(* clock it is read from.                                                  *)
(***************************************************************************)
EXTENDS Integers, Sequences, FiniteSets, TLC

VARIABLES
    year,        \* wall clock: the calendar year datetime.now() reports
    user,        \* st.session_state.user
    meta,        \* table meta: key -> value (TEXT)
    users,       \* table users
    samples,     \* table samples (rows in rowid order)
    tests,       \* table tests
    results,     \* table results
    attachments, \* table attachments
    coc,         \* table coc
    audit,       \* table audit
    qc_events,   \* table qc_events
    nops,        \* number of handler runs so far (history)
    last,        \* the last handler run and how it ended (history)
    issued,      \* what next_sample_id returned and the year it read, in return order (history)
    pc,          \* per session: position inside the registerSample or addTest handler
    loc,         \* per session: the handler's local variables
    df_due       \* the due-soon listing the dashboard last showed

vars == <<year, user, meta, users, samples, tests, results, attachments, coc,
          audit, qc_events, nops, last, issued, pc, loc, df_due>>

tables == <<meta, users, samples, tests, results, attachments, coc, audit, qc_events>>

-----------------------------------------------------------------------------
(* Bounds *)

\* handler runs explored in the sequential specification
MaxOps == 2
\* registrations explored in the sequencer's specification
MaxRegs == 4
\* handler runs explored in the QC page's specification
MaxQcOps == 3
\* registerSample submissions explored in the statement-level specification
MaxCalls == 2
MaxBootOps == 4
MaxDueOps == 3
\* the calendar years the wall clock takes
Years == {2025, 2026}

-----------------------------------------------------------------------------
(* Texts *)

Empty == <<>>
TAdmin == <<"a", "d", "m", "i", "n">>
TAnon == <<"a", "n", "o", "n">>
TDash == <<"-">>
TZero == <<"0">>

DigitChar(d) ==
    CASE d = 0 -> "0" [] d = 1 -> "1" [] d = 2 -> "2" [] d = 3 -> "3" [] d = 4 -> "4"
      [] d = 5 -> "5" [] d = 6 -> "6" [] d = 7 -> "7" [] d = 8 -> "8" [] d = 9 -> "9"

DigitVal(c) ==
    CASE c = "0" -> 0 [] c = "1" -> 1 [] c = "2" -> 2 [] c = "3" -> 3 [] c = "4" -> 4
      [] c = "5" -> 5 [] c = "6" -> 6 [] c = "7" -> 7 [] c = "8" -> 8 [] c = "9" -> 9

\* str(n) of a non-negative int
RECURSIVE Str(_)
Str(n) == IF n < 10 THEN <<DigitChar(n)>> ELSE Str(n \div 10) \o <<DigitChar(n % 10)>>

\* int(t) of a text of decimal digits
RECURSIVE ToInt(_)
ToInt(t) ==
    IF Len(t) = 1 THEN DigitVal(t[1])
    ELSE ToInt(SubSeq(t, 1, Len(t) - 1)) * 10 + DigitVal(t[Len(t)])

\* the format spec 04d: zero-padded on the left to at least four characters
RECURSIVE Pad4(_)
Pad4(t) == IF Len(t) >= 4 THEN t ELSE Pad4(<<"0">> \o t)

\* f"S-{year}-{seq_num:04d}"
FormatId(yr, n) == <<"S", "-">> \o yr \o <<"-">> \o Pad4(Str(n))

\* str.strip(): leading and trailing blanks removed
RECURSIVE LStrip(_)
LStrip(t) == IF t # <<>> /\ t[1] = " " THEN LStrip(Tail(t)) ELSE t
RECURSIVE RStrip(_)
RStrip(t) == IF t # <<>> /\ t[Len(t)] = " " THEN RStrip(SubSeq(t, 1, Len(t) - 1)) ELSE t
Strip(t) == RStrip(LStrip(t))

\* now_ts(), abstracted to the year of the wall clock
NowTs(y) == Str(y)

\* SQL NULL / Python None in a TEXT column: no text at all
Null == <<"NULL">>

\* the format spec 02d
Pad2(t) == IF Len(t) >= 2 THEN t ELSE <<"0">> \o t

\* str(d) of a datetime.date: YYYY-MM-DD
IsoDate(dt) == Pad4(Str(dt.y)) \o <<"-">> \o Pad2(Str(dt.m)) \o <<"-">> \o Pad2(Str(dt.d))

\* the date a YYYY-MM-DD text denotes
ParseDate(t) == [y |-> ToInt(SubSeq(t, 1, 4)), m |-> ToInt(SubSeq(t, 6, 7)),
                 d |-> ToInt(SubSeq(t, 9, 10))]

IsLeap(y) == (y % 4 = 0 /\ y % 100 # 0) \/ y % 400 = 0
DaysInMonth(y, m) ==
    IF m = 2 THEN (IF IsLeap(y) THEN 29 ELSE 28)
    ELSE IF m \in {4, 6, 9, 11} THEN 30 ELSE 31

NextDay(dt) ==
    IF dt.d < DaysInMonth(dt.y, dt.m) THEN [dt EXCEPT !.d = dt.d + 1]
    ELSE IF dt.m < 12 THEN [dt EXCEPT !.m = dt.m + 1, !.d = 1]
    ELSE [y |-> dt.y + 1, m |-> 1, d |-> 1]

\* the sqlite date modifier '+n day'
RECURSIVE AddDays(_, _)
AddDays(dt, n) == IF n = 0 THEN dt ELSE AddDays(NextDay(dt), n - 1)

\* sqlite's DATE(text) of a date text: the date, written again as YYYY-MM-DD
SqlDate(t) == IsoDate(ParseDate(t))

\* sqlite's <= on two TEXT values (BINARY collation) over digits and '-'
CharRank(c) == IF c = "-" THEN 0 ELSE DigitVal(c) + 1
RECURSIVE TextLeq(_, _)
TextLeq(a, b) ==
    IF a = <<>> THEN TRUE
    ELSE IF b = <<>> THEN FALSE
    ELSE IF a[1] = b[1] THEN TextLeq(Tail(a), Tail(b))
    ELSE CharRank(a[1]) < CharRank(b[1])

-----------------------------------------------------------------------------
(* Persistence store *)

\* AUTOINCREMENT: one more than the largest id given so far (no row is ever deleted)
RECURSIVE MaxId(_)
MaxId(t) == IF t = <<>> THEN 0
            ELSE LET m == MaxId(Tail(t)) IN IF Head(t).id > m THEN Head(t).id ELSE m
NextId(t) == MaxId(t) + 1

\* the ids of a table's rows
Ids(t) == {t[i].id : i \in 1..Len(t)}

\* UPDATE meta SET value=? WHERE key=?: touches the row only when it exists
MetaUpdate(m, k, v) == IF k \in DOMAIN m THEN [m EXCEPT ![k] = v] ELSE m

\* an audit row that names the built-in account instead of the acting user
AuditRowAsAdmin(a, entity, entity_id, action, by_user, y, details) ==
    [id |-> NextId(a), entity |-> entity, entity_id |-> entity_id, action |-> action,
     by_user |-> TAdmin, at_time |-> NowTs(y), details |-> details]

\* an INSERT OR REPLACE that reuses the id of the log's last record
AuditAppendReplacing(a, entity, entity_id, action, by_user, y, details) ==
    IF a = <<>>
    THEN <<[id |-> 1, entity |-> entity, entity_id |-> entity_id, action |-> action,
            by_user |-> by_user, at_time |-> NowTs(y), details |-> details]>>
    ELSE [a EXCEPT ![Len(a)] =
            [id |-> a[Len(a)].id, entity |-> entity, entity_id |-> entity_id,
             action |-> action, by_user |-> by_user, at_time |-> NowTs(y),
             details |-> details]]

\* audit(entity, entity_id, action, by_user, details): one INSERT INTO audit
AuditRow(a, entity, entity_id, action, by_user, y, details) ==
    [id |-> NextId(a), entity |-> entity, entity_id |-> entity_id, action |-> action,
     by_user |-> by_user, at_time |-> NowTs(y), details |-> details]
AuditAppend(a, entity, entity_id, action, by_user, y, details) ==
    Append(a, AuditRow(a, entity, entity_id, action, by_user, y, details))

-----------------------------------------------------------------------------
(* Identifier sequencer *)

\* next_sample_id() without "seq_num = 0" when the year differs
NextSampleIdNoReset(m, y) ==
    LET yr == Str(y)
        seq_year == IF "seq_ano" \in DOMAIN m THEN <<m["seq_ano"]>> ELSE <<>>
        seq_num == ToInt(m["seq_num"])
        reset == seq_year = <<>> \/ seq_year[1] # yr
        m1 == IF reset THEN MetaUpdate(m, "seq_ano", yr) ELSE m
        n == seq_num + 1
    IN  [meta |-> MetaUpdate(m1, "seq_num", Str(n)), sid |-> FormatId(yr, n), seq |-> n]

\* next_sample_id() run to completion on meta m with the clock at year y:
\* the meta it leaves and the identifier it returns
NextSampleId(m, y) ==
    LET yr == Str(y)
        seq_year == IF "seq_ano" \in DOMAIN m THEN <<m["seq_ano"]>> ELSE <<>>
        seq_num == ToInt(m["seq_num"])
        reset == seq_year = <<>> \/ seq_year[1] # yr
        m1 == IF reset THEN MetaUpdate(m, "seq_ano", yr) ELSE m
        n == (IF reset THEN 0 ELSE seq_num) + 1
    IN  [meta |-> MetaUpdate(m1, "seq_num", Str(n)), sid |-> FormatId(yr, n), seq |-> n]

-----------------------------------------------------------------------------
(* Values the forms are submitted with *)

TRegistro == <<"R", "e", "g", "i", "s", "t", "r", "o">>
TRegistrado == <<"r", "e", "g", "i", "s", "t", "r", "a", "d", "o">>
TCerrado == <<"c", "e", "r", "r", "a", "d", "o">>
TCancelado == <<"c", "a", "n", "c", "e", "l", "a", "d", "o">>
TPendiente == <<"p", "e", "n", "d", "i", "e", "n", "t", "e">>
TReportado == <<"r", "e", "p", "o", "r", "t", "a", "d", "o">>
TAbierto == <<"a", "b", "i", "e", "r", "t", "o">>

\* what is typed into the sidebar's "Usuario activo"
UserTexts == {Empty, <<" ">>, <<"b">>, <<" ", "b">>, <<"b", " ">>}
\* "Cliente *"
Clients == {Empty, <<"A">>}
\* "Estado" of a sample (two of the selectbox's six values)
SampleStatuses == {TRegistrado, TCerrado}
\* "Estado" as frm_sample is submitted (the selectbox's default, index=0)
NewSampleStatuses == {TRegistrado}
\* "Estado" of a test (one of the selectbox's five values)
TestStatuses == {TReportado}
\* a typed sample identifier: nothing, or the first identifier of 2025
SidInputs == {Empty, FormatId(Str(2025), 1)}
\* "Ensayo *", "Analito *", "URL *", "Evento *", "Usuario *"
TestNames == {Empty, <<"F">>}
Analytes == {Empty, <<"F", "e">>}
Urls == {Empty, <<"u">>}
Events == {Empty, <<"P">>}
UserNames == {Empty, TAdmin, <<"b">>}
\* number_input with min_value=1 (test ids) and min_value=0 (QC event ids)
TidInputs == {1}
QidInputs == 0..1
QcQidInputs == 0..2

-----------------------------------------------------------------------------
(* Sessions of the statement-level specification *)

Sessions == {1, 2}
NoLoc == [yr |-> Empty, seq_year |-> <<>>, seq_num |-> 0, sid |-> Empty]
Idle == \A s \in Sessions : pc[s] = "idle"

-----------------------------------------------------------------------------
(* Initial state: a fresh lims.db after init_db() *)

InitMeta(y) == [k \in {"seq_ano", "seq_num"} |-> IF k = "seq_ano" THEN Str(y) ELSE TZero]
InitUsers(y) == <<[id |-> 1, username |-> TAdmin, role |-> "admin", active |-> 1,
                   created_at |-> NowTs(y)]>>

Init ==
    /\ year \in Years
    /\ user = TAdmin
    /\ meta = InitMeta(year)
    /\ users = InitUsers(year)
    /\ samples = <<>>
    /\ tests = <<>>
    /\ results = <<>>
    /\ attachments = <<>>
    /\ coc = <<>>
    /\ audit = <<>>
    /\ qc_events = <<>>
    /\ nops = 0
    /\ last = [op |-> "init", arg |-> Empty, outcome |-> "ok"]
    /\ issued = <<>>
    /\ pc = [s \in Sessions |-> "idle"]
    /\ loc = [s \in Sessions |-> NoLoc]
    /\ df_due = <<>>

-----------------------------------------------------------------------------
(* Environment and sidebar *)

\* the wall clock moves to another calendar year
Tick(y) ==
    /\ y # year
    /\ year' = y
    /\ UNCHANGED <<df_due, user, tables, nops, last, issued, pc, loc>>

\* the sidebar: st.session_state.user = user.strip() or "anon"
SessionUser(text) == IF Strip(text) # Empty THEN Strip(text) ELSE TAnon

SetUser(text) ==
    /\ Idle
    /\ user' = SessionUser(text)
    /\ UNCHANGED <<df_due, year, tables, nops, last, issued, pc, loc>>

\* a handler run ends: what it was and how it ended
Ran(op, arg, outcome) ==
    /\ nops' = nops + 1
    /\ last' = [op |-> op, arg |-> arg, outcome |-> outcome]

-----------------------------------------------------------------------------
(* Row operations of the handlers *)

SampleRow(sid, client, due_at, status, by, y) ==
    [id |-> sid, client |-> client, due_at |-> due_at, status |-> status,
     created_by |-> by, created_at |-> NowTs(y), updated_at |-> NowTs(y)]

CocRow(t, sid, event, by, y, notes) ==
    [id |-> NextId(t), sample_id |-> sid, event |-> event, by_user |-> by,
     at_time |-> NowTs(y), notes |-> notes]

\* UPDATE samples SET client=?, status=?, updated_at=? WHERE id=?
UpdateSampleRows(t, sid, client, status, y) ==
    [i \in 1..Len(t) |->
        IF t[i].id = sid
        THEN [t[i] EXCEPT !.client = client, !.status = status, !.updated_at = NowTs(y)]
        ELSE t[i]]

\* UPDATE tests SET status=?, assigned_to=? WHERE id=?
UpdateTestRows(t, tid, status, assigned_to) ==
    [i \in 1..Len(t) |->
        IF t[i].id = tid
        THEN [t[i] EXCEPT !.status = status, !.assigned_to = assigned_to]
        ELSE t[i]]

\* UPDATE qc_events SET status='cerrado' without its WHERE clause
CloseQcRowsAll(t, qid) == [i \in 1..Len(t) |-> [t[i] EXCEPT !.status = TCerrado]]

\* UPDATE qc_events SET status='cerrado' WHERE id=?
CloseQcRows(t, qid) ==
    [i \in 1..Len(t) |-> IF t[i].id = qid THEN [t[i] EXCEPT !.status = TCerrado] ELSE t[i]]

\* the row of t with the given id (the handler has checked that there is one)
RowById(t, id) == t[CHOOSE i \in 1..Len(t) : t[i].id = id]

-----------------------------------------------------------------------------
(* Handlers, each run to completion *)

\* frm_sample taking the identifier before it looks at the client
RegisterSampleIdFirst(client, due_at, status) ==
    /\ Idle
    /\ LET r == NextSampleId(meta, year) IN
       /\ meta' = r.meta
       /\ issued' = Append(issued, [sid |-> r.sid, at |-> year])
       /\ IF client = Empty
          THEN /\ Ran("registerSample", client, "invalid")
               /\ UNCHANGED <<samples, audit, coc>>
          ELSE IF r.sid \in Ids(samples)
          THEN /\ Ran("registerSample", client, "error")
               /\ UNCHANGED <<samples, audit, coc>>
          ELSE /\ Ran("registerSample", client, "ok")
               /\ samples' = Append(samples, SampleRow(r.sid, client, due_at, status, user, year))
               /\ audit' = AuditAppend(audit, "sample", r.sid, "create", user, year, client)
               /\ coc' = Append(coc, CocRow(coc, r.sid, TRegistro, user, year, <<"M">>))
    /\ UNCHANGED <<df_due, year, user, users, tests, results, attachments, qc_events, pc, loc>>

\* form frm_sample: "Crear muestra"
RegisterSample(client, due_at, status) ==
    /\ Idle
    /\ IF client = Empty
       THEN /\ Ran("registerSample", client, "invalid")
            /\ UNCHANGED <<tables, issued>>
       ELSE LET r == NextSampleId(meta, year) IN
            /\ meta' = r.meta
            /\ issued' = Append(issued, [sid |-> r.sid, at |-> year])
            /\ IF r.sid \in Ids(samples)
               THEN \* PRIMARY KEY violation: sqlite3.IntegrityError, not caught
                    /\ Ran("registerSample", client, "error")
                    /\ UNCHANGED <<samples, audit, coc>>
               ELSE /\ Ran("registerSample", client, "ok")
                    /\ samples' = Append(samples, SampleRow(r.sid, client, due_at, status, user, year))
                    /\ audit' = AuditAppend(audit, "sample", r.sid, "create", user, year, client)
                    /\ coc' = Append(coc, CocRow(coc, r.sid, TRegistro, user, year,
                                                 <<"M">>))
    /\ UNCHANGED <<df_due, year, user, users, tests, results, attachments, qc_events, pc, loc>>

\* form edit_sample: "Guardar cambios"
UpdateSample(sid, client, status) ==
    /\ Idle
    /\ IF sid = Empty
       THEN /\ Ran("updateSample", sid, "invalid")
            /\ UNCHANGED <<samples, audit>>
       ELSE IF sid \notin Ids(samples)
       THEN /\ Ran("updateSample", sid, "notfound")
            /\ UNCHANGED <<samples, audit>>
       ELSE /\ Ran("updateSample", sid, "ok")
            /\ samples' = UpdateSampleRows(samples, sid, client, status, year)
            /\ audit' = AuditAppend(audit, "sample", sid, "update", user, year, status)
    /\ UNCHANGED <<df_due, year, user, meta, users, tests, results, attachments, coc, qc_events,
                   issued, pc, loc>>

\* form add_test: "Agregar"
AddTest(sid2, test_name) ==
    /\ Idle
    /\ IF sid2 = Empty \/ test_name = Empty
       THEN /\ Ran("addTest", sid2, "invalid")
            /\ UNCHANGED <<tests, audit>>
       ELSE /\ Ran("addTest", sid2, "ok")
            /\ tests' = Append(tests, [id |-> NextId(tests), sample_id |-> sid2,
                                       test_name |-> test_name, status |-> TPendiente,
                                       assigned_to |-> Empty])
            /\ audit' = AuditAppend(audit, "test", sid2, "create", user, year, test_name)
    /\ UNCHANGED <<df_due, year, user, meta, users, samples, results, attachments, coc, qc_events,
                   issued, pc, loc>>

\* form edit_test: "Guardar" (the assignee field is submitted with its default)
UpdateTest(tid, status) ==
    /\ Idle
    /\ IF tid \notin Ids(tests)
       THEN /\ Ran("updateTest", Str(tid), "notfound")
            /\ UNCHANGED <<tests, audit>>
       ELSE LET row == RowById(tests, tid)
                assigned_to == IF row.assigned_to # Empty THEN row.assigned_to ELSE user
            IN  /\ Ran("updateTest", Str(tid), "ok")
                /\ tests' = UpdateTestRows(tests, tid, status, assigned_to)
                /\ audit' = AuditAppend(audit, "test", Str(tid), "update", user, year, status)
    /\ UNCHANGED <<df_due, year, user, meta, users, samples, results, attachments, coc, qc_events,
                   issued, pc, loc>>

\* form add_result: "Añadir resultado"
AddResult(tid_r, analyte) ==
    /\ Idle
    /\ IF analyte = Empty \/ tid_r = 0
       THEN /\ Ran("addResult", Str(tid_r), "invalid")
            /\ UNCHANGED <<results, audit>>
       ELSE /\ Ran("addResult", Str(tid_r), "ok")
            /\ results' = Append(results, [id |-> NextId(results), test_id |-> tid_r,
                                           analyte |-> analyte, measured_at |-> NowTs(year)])
            /\ audit' = AuditAppend(audit, "result", Str(tid_r), "create", user, year, analyte)
    /\ UNCHANGED <<df_due, year, user, meta, users, samples, tests, attachments, coc, qc_events,
                   issued, pc, loc>>

\* form add_link: "Agregar link"
AddAttachment(sid, url) ==
    /\ Idle
    /\ IF sid = Empty \/ url = Empty
       THEN /\ Ran("addAttachment", sid, "invalid")
            /\ UNCHANGED <<attachments, audit>>
       ELSE /\ Ran("addAttachment", sid, "ok")
            /\ attachments' = Append(attachments,
                                     [id |-> NextId(attachments), sample_id |-> sid,
                                      url |-> url, added_by |-> user,
                                      added_at |-> NowTs(year)])
            /\ audit' = AuditAppend(audit, "attachment", sid, "create", user, year, url)
    /\ UNCHANGED <<df_due, year, user, meta, users, samples, tests, results, coc, qc_events,
                   issued, pc, loc>>

\* form qc_form: "Registrar evento QC"
AddQcEvent(qtype) ==
    /\ Idle
    /\ Ran("addQcEvent", Empty, "ok")
    /\ qc_events' = Append(qc_events, [id |-> NextId(qc_events), type |-> qtype,
                                       status |-> TAbierto, at_time |-> NowTs(year),
                                       by_user |-> user])
    /\ audit' = AuditAppend(audit, "qc", TDash, "create", user, year, qtype)
    /\ UNCHANGED <<df_due, year, user, meta, users, samples, tests, results, attachments, coc,
                   issued, pc, loc>>

\* button "Cerrar evento QC"
CloseQcEvent(qid) ==
    /\ Idle
    /\ IF qid = 0
       THEN /\ Ran("closeQcEvent", Str(qid), "invalid")
            /\ UNCHANGED <<qc_events, audit>>
       ELSE /\ Ran("closeQcEvent", Str(qid), "ok")
            /\ qc_events' = CloseQcRows(qc_events, qid)
            /\ audit' = AuditAppend(audit, "qc", Str(qid), "close", user, year, Empty)
    /\ UNCHANGED <<df_due, year, user, meta, users, samples, tests, results, attachments, coc,
                   issued, pc, loc>>

\* add_user writing its audit record before the INSERT that may fail
CreateUserAuditFirst(uname, role) ==
    /\ Idle
    /\ IF uname = Empty
       THEN /\ Ran("createUser", uname, "invalid")
            /\ UNCHANGED <<users, audit>>
       ELSE /\ audit' = AuditAppend(audit, "user", uname, "create", user, year, <<role>>)
            /\ IF \E i \in 1..Len(users) : users[i].username = uname
               THEN /\ Ran("createUser", uname, "duplicate")
                    /\ UNCHANGED users
               ELSE /\ Ran("createUser", uname, "ok")
                    /\ users' = Append(users, [id |-> NextId(users), username |-> uname,
                                               role |-> role, active |-> 1,
                                               created_at |-> NowTs(year)])
    /\ UNCHANGED <<df_due, year, user, meta, samples, tests, results, attachments, coc, qc_events,
                   issued, pc, loc>>

\* form add_user: "Crear usuario"
CreateUser(uname, role) ==
    /\ Idle
    /\ IF uname = Empty
       THEN /\ Ran("createUser", uname, "invalid")
            /\ UNCHANGED <<users, audit>>
       ELSE IF \E i \in 1..Len(users) : users[i].username = uname
       THEN \* UNIQUE violation: sqlite3.IntegrityError, caught by the handler
            /\ Ran("createUser", uname, "duplicate")
            /\ UNCHANGED <<users, audit>>
       ELSE /\ Ran("createUser", uname, "ok")
            /\ users' = Append(users, [id |-> NextId(users), username |-> uname,
                                       role |-> role, active |-> 1,
                                       created_at |-> NowTs(year)])
            /\ audit' = AuditAppend(audit, "user", uname, "create", user, year, <<role>>)
    /\ UNCHANGED <<df_due, year, user, meta, samples, tests, results, attachments, coc, qc_events,
                   issued, pc, loc>>

\* form add_coc: "Añadir evento"
AddCocEvent(sid, event) ==
    /\ Idle
    /\ IF sid = Empty \/ event = Empty
       THEN /\ Ran("addCocEvent", sid, "invalid")
            /\ UNCHANGED <<coc, audit>>
       ELSE /\ Ran("addCocEvent", sid, "ok")
            /\ coc' = Append(coc, CocRow(coc, sid, event, user, year, Empty))
            /\ audit' = AuditAppend(audit, "coc", sid, "add_event", user, year, event)
    /\ UNCHANGED <<df_due, year, user, meta, users, samples, tests, results, attachments,
                   qc_events, issued, pc, loc>>

\* the listing with ORDER BY at_time ASC, id ASC
RECURSIVE SortByTime(_)
SortByTime(rows) ==
    IF rows = {} THEN <<>>
    ELSE LET r == CHOOSE x \in rows : \A z \in rows :
                     \/ ToInt(x.at_time) < ToInt(z.at_time)
                     \/ ToInt(x.at_time) = ToInt(z.at_time) /\ x.id <= z.id
         IN  <<r>> \o SortByTime(rows \ {r})
CocListingByTime(t, sid) ==
    SortByTime({t[i] : i \in {j \in 1..Len(t) : t[j].sample_id = sid}})

\* the per-sample chain-of-custody listing: ... WHERE sample_id=? ORDER BY id ASC
RECURSIVE SortById(_)
SortById(rows) ==
    IF rows = {} THEN <<>>
    ELSE LET r == CHOOSE x \in rows : \A z \in rows : x.id <= z.id
         IN  <<r>> \o SortById(rows \ {r})
CocListing(t, sid) == SortById({t[i] : i \in {j \in 1..Len(t) : t[j].sample_id = sid}})

-----------------------------------------------------------------------------
(* The sequential specification: one handler at a time, each to completion *)

Next ==
    \/ \E y \in Years : Tick(y)
    \/ \E text \in UserTexts : SetUser(text)
    \/ \E client \in Clients, status \in NewSampleStatuses :
          nops < MaxOps /\ RegisterSample(client, Null, status)
    \/ \E sid \in SidInputs, status \in SampleStatuses :
          nops < MaxOps /\ UpdateSample(sid, <<"A">>, status)
    \/ \E sid \in SidInputs, name \in TestNames : nops < MaxOps /\ AddTest(sid, name)
    \/ \E tid \in TidInputs, status \in TestStatuses :
          nops < MaxOps /\ UpdateTest(tid, status)
    \/ \E tid \in TidInputs, analyte \in Analytes : nops < MaxOps /\ AddResult(tid, analyte)
    \/ \E sid \in SidInputs, url \in Urls : nops < MaxOps /\ AddAttachment(sid, url)
    \/ nops < MaxOps /\ AddQcEvent("calibracion")
    \/ \E qid \in QidInputs : nops < MaxOps /\ CloseQcEvent(qid)
    \/ \E uname \in UserNames : nops < MaxOps /\ CreateUser(uname, "analyst")
    \/ \E sid \in SidInputs, event \in Events : nops < MaxOps /\ AddCocEvent(sid, event)

Spec == Init /\ [][Next]_vars

-----------------------------------------------------------------------------
(* The sequencer under the clock: registrations only, one at a time *)

NextSeq ==
    \/ \E y \in Years : Tick(y)
    \/ \E client \in Clients, status \in SampleStatuses :
          nops < MaxRegs /\ RegisterSample(client, Null, status)

SpecSeq == Init /\ [][NextSeq]_vars

-----------------------------------------------------------------------------
(* The QC page: registering and closing QC events, one handler at a time *)

NextQc ==
    \/ \E y \in Years : Tick(y)
    \/ \E text \in UserTexts : SetUser(text)
    \/ nops < MaxQcOps /\ AddQcEvent("calibracion")
    \/ \E qid \in QcQidInputs : nops < MaxQcOps /\ CloseQcEvent(qid)

SpecQc == Init /\ [][NextQc]_vars

-----------------------------------------------------------------------------
(* registerSample statement by statement: every run_query / run_execute is   *)
(* its own connection and its own committed transaction, and two sessions    *)
(* of the script interleave between them                                     *)

At(s, label) == pc[s] = label
Goto(s, label) == pc' = [pc EXCEPT ![s] = label]

\* the clock moves on to a later calendar year
TickForward(y) == y > year /\ Tick(y)

\* submit with a client: next_sample_id() is entered, year = str(datetime.now().year)
RsBegin(s) ==
    /\ At(s, "idle") /\ nops < MaxCalls
    /\ nops' = nops + 1
    /\ loc' = [loc EXCEPT ![s] = [NoLoc EXCEPT !.yr = Str(year)]]
    /\ Goto(s, "q_year")
    /\ UNCHANGED <<df_due, year, user, tables, last, issued>>

\* seq_year = run_query("SELECT value FROM meta WHERE key='seq_ano'")
RsQueryYear(s) ==
    /\ At(s, "q_year")
    /\ loc' = [loc EXCEPT ![s].seq_year =
                  IF "seq_ano" \in DOMAIN meta THEN <<meta["seq_ano"]>> ELSE <<>>]
    /\ Goto(s, "q_num")
    /\ UNCHANGED <<df_due, year, user, tables, nops, last, issued>>

\* seq_num = int(run_query("SELECT value FROM meta WHERE key='seq_num'")[0]["value"])
RsQueryNum(s) ==
    /\ At(s, "q_num")
    /\ loc' = [loc EXCEPT ![s].seq_num = ToInt(meta["seq_num"])]
    /\ Goto(s, "chk_year")
    /\ UNCHANGED <<df_due, year, user, tables, nops, last, issued>>

\* if not seq_year or seq_year[0]["value"] != year: UPDATE seq_ano; seq_num = 0
RsCheckYear(s) ==
    /\ At(s, "chk_year")
    /\ IF loc[s].seq_year = <<>> \/ loc[s].seq_year[1] # loc[s].yr
       THEN /\ meta' = MetaUpdate(meta, "seq_ano", loc[s].yr)
            /\ loc' = [loc EXCEPT ![s].seq_num = 0]
       ELSE UNCHANGED <<meta, loc>>
    /\ Goto(s, "w_num")
    /\ UNCHANGED <<df_due, year, user, users, samples, tests, results, attachments, coc, audit,
                   qc_events, nops, last, issued>>

\* the handler reaching its audit call before (and instead of) its INSERT
RsWriteNumThenAudit(s) ==
    /\ At(s, "w_num")
    /\ LET n == loc[s].seq_num + 1
           sid == FormatId(loc[s].yr, n)
       IN  /\ meta' = MetaUpdate(meta, "seq_num", Str(n))
           /\ loc' = [loc EXCEPT ![s].seq_num = n, ![s].sid = sid]
           /\ issued' = Append(issued, [sid |-> sid, at |-> ToInt(loc[s].yr)])
    /\ Goto(s, "aud")
    /\ UNCHANGED <<df_due, year, user, users, samples, tests, results, attachments, coc, audit,
                   qc_events, nops, last>>

\* seq_num += 1; UPDATE seq_num; return f"S-{year}-{seq_num:04d}"
RsWriteNum(s) ==
    /\ At(s, "w_num")
    /\ LET n == loc[s].seq_num + 1
           sid == FormatId(loc[s].yr, n)
       IN  /\ meta' = MetaUpdate(meta, "seq_num", Str(n))
           /\ loc' = [loc EXCEPT ![s].seq_num = n, ![s].sid = sid]
           /\ issued' = Append(issued, [sid |-> sid, at |-> ToInt(loc[s].yr)])
    /\ Goto(s, "ins")
    /\ UNCHANGED <<df_due, year, user, users, samples, tests, results, attachments, coc, audit,
                   qc_events, nops, last>>

\* INSERT INTO samples(...): the handler ends here when the PRIMARY KEY is taken
RsInsert(s) ==
    /\ At(s, "ins")
    /\ IF loc[s].sid \in Ids(samples)
       THEN /\ last' = [op |-> "registerSample", arg |-> <<"A">>, outcome |-> "error"]
            /\ loc' = [loc EXCEPT ![s] = NoLoc]
            /\ Goto(s, "idle")
            /\ UNCHANGED samples
       ELSE /\ samples' = Append(samples,
                                 SampleRow(loc[s].sid, <<"A">>, Null, TRegistrado, user, year))
            /\ Goto(s, "aud")
            /\ UNCHANGED <<last, loc>>
    /\ UNCHANGED <<df_due, year, user, meta, users, tests, results, attachments, coc, audit,
                   qc_events, nops, issued>>

\* audit("sample", sid, "create", st.session_state.user, {...})
RsAudit(s) ==
    /\ At(s, "aud")
    /\ audit' = AuditAppend(audit, "sample", loc[s].sid, "create", user, year, <<"A">>)
    /\ Goto(s, "coc")
    /\ UNCHANGED <<df_due, year, user, meta, users, samples, tests, results, attachments, coc,
                   qc_events, nops, last, issued, loc>>

\* INSERT INTO coc(...) "Registro"; st.success
RsCoc(s) ==
    /\ At(s, "coc")
    /\ coc' = Append(coc, CocRow(coc, loc[s].sid, TRegistro, user, year, <<"M">>))
    /\ last' = [op |-> "registerSample", arg |-> <<"A">>, outcome |-> "ok"]
    /\ loc' = [loc EXCEPT ![s] = NoLoc]
    /\ Goto(s, "idle")
    /\ UNCHANGED <<df_due, year, user, meta, users, samples, tests, results, attachments, audit,
                   qc_events, nops, issued>>

NextConc ==
    \/ \E y \in Years : TickForward(y)
    \/ \E s \in Sessions : RsBegin(s)
    \/ \E s \in Sessions : RsQueryYear(s)
    \/ \E s \in Sessions : RsQueryNum(s)
    \/ \E s \in Sessions : RsCheckYear(s)
    \/ \E s \in Sessions : RsWriteNum(s)
    \/ \E s \in Sessions : RsInsert(s)
    \/ \E s \in Sessions : RsAudit(s)
    \/ \E s \in Sessions : RsCoc(s)

SpecConc == Init /\ [][NextConc]_vars

-----------------------------------------------------------------------------
(* The process stopping inside a handler: what is committed stays, the rest *)
(* of the handler never runs                                                *)

\* add_test, its INSERT: run_execute commits the Test row
TsInsert(s, sid2) ==
    /\ At(s, "idle") /\ nops < MaxCalls
    /\ sid2 # Empty
    /\ nops' = nops + 1
    /\ tests' = Append(tests, [id |-> NextId(tests), sample_id |-> sid2,
                               test_name |-> <<"F">>, status |-> TPendiente,
                               assigned_to |-> Empty])
    /\ loc' = [loc EXCEPT ![s] = [NoLoc EXCEPT !.sid = sid2]]
    /\ Goto(s, "t_aud")
    /\ UNCHANGED <<df_due, year, user, meta, users, samples, results, attachments, coc, audit,
                   qc_events, last, issued>>

\* add_test, its audit("test", sid2, "create", ...); st.success
TsAudit(s) ==
    /\ At(s, "t_aud")
    /\ audit' = AuditAppend(audit, "test", loc[s].sid, "create", user, year, <<"F">>)
    /\ last' = [op |-> "addTest", arg |-> loc[s].sid, outcome |-> "ok"]
    /\ loc' = [loc EXCEPT ![s] = NoLoc]
    /\ Goto(s, "idle")
    /\ UNCHANGED <<df_due, year, user, meta, users, samples, tests, results, attachments, coc,
                   qc_events, nops, issued>>

\* the process stops while a handler is between two store calls
Crash ==
    /\ \E s \in Sessions : pc[s] # "idle"
    /\ pc' = [s \in Sessions |-> "idle"]
    /\ loc' = [s \in Sessions |-> NoLoc]
    /\ last' = [op |-> "stop", arg |-> Empty, outcome |-> "crash"]
    /\ UNCHANGED <<df_due, year, user, tables, nops, issued>>

NextCrash ==
    \/ \E y \in Years : TickForward(y)
    \/ \E s \in Sessions : RsBegin(s)
    \/ \E s \in Sessions : RsQueryYear(s)
    \/ \E s \in Sessions : RsQueryNum(s)
    \/ \E s \in Sessions : RsCheckYear(s)
    \/ \E s \in Sessions : RsWriteNum(s)
    \/ \E s \in Sessions : RsInsert(s)
    \/ \E s \in Sessions : RsAudit(s)
    \/ \E s \in Sessions : RsCoc(s)
    \/ \E s \in Sessions, sid \in SidInputs : TsInsert(s, sid)
    \/ \E s \in Sessions : TsAudit(s)
    \/ Crash

SpecCrash == Init /\ [][NextCrash]_vars

-----------------------------------------------------------------------------
(* Start-up: init_db() on a new database file and on every later script run *)

NoMeta == [k \in {} |-> Empty]
AdminRow(u, y) == [id |-> NextId(u), username |-> TAdmin, role |-> "admin", active |-> 1,
                   created_at |-> NowTs(y)]
HasAdmin(u) == \E i \in 1..Len(u) : u[i].username = TAdmin

\* INSERT INTO meta(key, value): the key is new
MetaInsert(m, k, v) == [x \in DOMAIN m \cup {k} |-> IF x = k THEN v ELSE m[x]]

\* init_db() writing its three initial values whether or not they are there
InitDbReplacing(m, u, y, k) ==
    [meta |-> IF k >= 2 THEN InitMeta(y)
              ELSE IF k = 1 THEN MetaInsert(m, "seq_ano", Str(y)) ELSE m,
     users |-> IF k >= 3 /\ ~HasAdmin(u) THEN Append(u, AdminRow(u, y)) ELSE u]

\* init_db() at year y on meta m and users u, through its first k initial values
\* (k = 3 is the whole function): each one is inserted only if its SELECT finds none
InitDb(m, u, y, k) ==
    LET m1 == IF k >= 1 /\ "seq_ano" \notin DOMAIN m
              THEN MetaInsert(m, "seq_ano", Str(y)) ELSE m
        m2 == IF k >= 2 /\ "seq_num" \notin DOMAIN m1
              THEN MetaInsert(m1, "seq_num", TZero) ELSE m1
    IN  [meta |-> m2,
         users |-> IF k >= 3 /\ ~HasAdmin(u) THEN Append(u, AdminRow(u, y)) ELSE u]

\* init_db() has completed at least once on this store
DbReady == DOMAIN meta = {"seq_ano", "seq_num"} /\ HasAdmin(users)

\* a script run executes init_db(); the process may stop after k of its writes
InitDbRun(k) ==
    /\ Idle
    /\ LET r == InitDb(meta, users, year, k) IN
          /\ meta' = r.meta
          /\ users' = r.users
    /\ Ran("init_db", Str(k), IF k = 3 THEN "ok" ELSE "crash")
    /\ UNCHANGED <<df_due, year, user, samples, tests, results, attachments, coc, audit,
                   qc_events, issued, pc, loc>>

\* a database file that does not exist yet: the tables are created empty
InitBoot ==
    /\ year \in Years
    /\ user = TAdmin
    /\ meta = NoMeta
    /\ users = <<>>
    /\ samples = <<>>
    /\ tests = <<>>
    /\ results = <<>>
    /\ attachments = <<>>
    /\ coc = <<>>
    /\ audit = <<>>
    /\ qc_events = <<>>
    /\ nops = 0
    /\ last = [op |-> "none", arg |-> Empty, outcome |-> "ok"]
    /\ issued = <<>>
    /\ pc = [s \in Sessions |-> "idle"]
    /\ loc = [s \in Sessions |-> NoLoc]
    /\ df_due = <<>>

\* a form is submitted only from a page that a script run has rendered, and that
\* run's init_db() came first
NextBoot ==
    \/ \E y \in Years : Tick(y)
    \/ \E k \in 0..3 : nops < MaxBootOps /\ InitDbRun(k)
    \/ \E client \in Clients, status \in NewSampleStatuses :
          nops < MaxBootOps /\ DbReady /\ RegisterSample(client, Null, status)

SpecBoot == InitBoot /\ [][NextBoot]_vars

-----------------------------------------------------------------------------
(* The dashboard's due-soon listing *)

\* DATE('now','+7 day')
DueWindow == 7

\* what the sample form's date input and status box are submitted with
DueInputs == {Null, IsoDate([y |-> 2025, m |-> 12, d |-> 30]),
              IsoDate([y |-> 2026, m |-> 1, d |-> 6])}
DueStatuses == {TRegistrado, TCerrado, TCancelado}
\* month and day the clock may show when the dashboard is drawn
ClockDays == {<<12, 23>>, <<12, 29>>, <<12, 31>>, <<1, 1>>}

\* SELECT s.id AS sample_id, s.client, s.due_at, s.status FROM samples s
\* WHERE s.due_at IS NOT NULL AND DATE(s.due_at) <= DATE('now','+7 day')
\*   AND s.status NOT IN ('cerrado','cancelado') ORDER BY s.due_at ASC
\* (rows with the same due date come in rowid order)
DueSoon(t, now) ==
    LET lim == IsoDate(AddDays(now, DueWindow))
        hit == {i \in 1..Len(t) :
                   /\ t[i].due_at # Null
                   /\ TextLeq(SqlDate(t[i].due_at), lim)
                   /\ t[i].status \notin {TCerrado, TCancelado}}
        RECURSIVE Sorted(_)
        Sorted(idx) ==
            IF idx = {} THEN <<>>
            ELSE LET i == CHOOSE x \in idx : \A z \in idx :
                              /\ TextLeq(t[x].due_at, t[z].due_at)
                              /\ t[x].due_at = t[z].due_at => x <= z
                 IN  <<[sample_id |-> t[i].id, client |-> t[i].client,
                        due_at |-> t[i].due_at, status |-> t[i].status]>>
                     \o Sorted(idx \ {i})
    IN  Sorted(hit)

\* page Dashboard drawn with the clock at month md[1], day md[2] of the year
Dashboard(md) ==
    /\ Idle
    /\ LET now == [y |-> year, m |-> md[1], d |-> md[2]] IN
          /\ df_due' = DueSoon(samples, now)
          /\ Ran("dashboard", IsoDate(now), "ok")
    /\ UNCHANGED <<year, user, tables, issued, pc, loc>>

NextDue ==
    \/ \E y \in Years : Tick(y)
    \/ \E status \in DueStatuses, due_at \in DueInputs :
          nops < MaxDueOps /\ RegisterSample(<<"A">>, due_at, status)
    \/ \E sid \in SidInputs, status \in DueStatuses :
          nops < MaxDueOps /\ UpdateSample(sid, <<"A">>, status)
    \/ \E md \in ClockDays : nops < MaxDueOps /\ Dashboard(md)

SpecDue == Init /\ [][NextDue]_vars

-----------------------------------------------------------------------------
(* Properties *)

\* the parts of an identifier S-<year>-<seq>
YearOfId(id) == SubSeq(id, 3, 6)
SeqTextOfId(id) == SubSeq(id, 8, Len(id))
SeqOfId(id) == ToInt(SeqTextOfId(id))

\* a handler run has just ended (the step is a handler's, not the clock's or the sidebar's)
HandlerStep == nops' = nops + 1

\* C1: sequential calls of next_sample_id return S-<year read>-<seq>; over any run of
\* consecutive calls that read the same calendar year seq grows by exactly one per
\* call (so it is strictly increasing and the identifiers are distinct), and the
\* first call after the year read has changed returns seq 0001
C1_SequentialIds ==
    \A j \in 1..Len(issued) :
        LET id == issued[j].sid IN
        /\ SubSeq(id, 1, 2) = <<"S", "-">>
        /\ YearOfId(id) = Str(issued[j].at)
        /\ id[7] = "-"
        /\ Len(SeqTextOfId(id)) = 4
        /\ j > 1 /\ issued[j].at # issued[j - 1].at => SeqTextOfId(id) = <<"0", "0", "0", "1">>
        /\ \A i \in 1..(j - 1) :
              (\A k \in i..j : issued[k].at = issued[j].at)
                 => SeqOfId(id) = SeqOfId(issued[i].sid) + (j - i)

\* C1 witness: two calls in one year (seq 1, 2), then a call in another year (seq 1)
C1_Witness ==
    /\ Len(issued) = 3
    /\ issued[1].at = issued[2].at /\ issued[2].at # issued[3].at
    /\ SeqOfId(issued[1].sid) = 1 /\ SeqOfId(issued[2].sid) = 2
    /\ SeqOfId(issued[3].sid) = 1

\* C2: two interleaved calls of next_sample_id never return the same identifier
C2_ConcurrentCallsDistinct ==
    \A i, j \in 1..Len(issued) : i # j => issued[i].sid # issued[j].sid

\* C3: no two Sample rows share an identifier, and no identifier issued by
\* next_sample_id is issued again, whatever the calendar year does
C3_UniqueNeverReused ==
    /\ \A i, j \in 1..Len(samples) : i < j => samples[i].id # samples[j].id
    /\ \A i, j \in 1..Len(issued) : i < j => issued[i].sid # issued[j].sid

\* the audit action each operation is to be logged with
ActionOf(op) ==
    CASE op \in {"registerSample", "addTest", "addResult", "addAttachment", "createUser",
                 "addQcEvent"} -> "create"
      [] op \in {"updateSample", "updateTest"} -> "update"
      [] op = "closeQcEvent" -> "close"
      [] op = "addCocEvent" -> "add_event"

\* C4: every accepted mutating operation adds exactly one Audit record, whose action
\* matches the operation and whose acting user is the current user
C4_OneAuditPerOperation ==
    [][HandlerStep /\ last'.outcome = "ok" =>
          /\ Len(audit') = Len(audit) + 1
          /\ SubSeq(audit', 1, Len(audit)) = audit
          /\ audit'[Len(audit')].action = ActionOf(last'.op)
          /\ audit'[Len(audit')].by_user = user]_vars

\* C4 witness: closeQcEvent was accepted for a user other than the default one, and
\* the one record it added is the log's last
C4_Witness ==
    /\ last.op = "closeQcEvent" /\ last.outcome = "ok"
    /\ user # TAdmin
    /\ Len(audit) = 2
    /\ audit[2].action = "close" /\ audit[2].by_user = user
    /\ audit[1].action = "create"

\* C5: a handler run that fails validation writes nothing: no table and neither
\* sequencer value changes
C5_NoWriteOnValidationFailure ==
    [][HandlerStep /\ last'.outcome = "invalid" => UNCHANGED tables]_vars

\* C5 witness: registerSample was rejected for its empty client after an earlier
\* registration, with the store as that registration left it
C5_Witness ==
    /\ last.op = "registerSample" /\ last.outcome = "invalid" /\ last.arg = Empty
    /\ Len(samples) = 1 /\ Len(audit) = 1
    /\ SeqOfId(samples[1].id) = ToInt(meta["seq_num"])

\* C6: every Test row's sample_id is the identifier of an existing Sample row
C6_TestsReferenceSamples ==
    \A i \in 1..Len(tests) : tests[i].sample_id \in Ids(samples)

\* C7: closeQcEvent sets the event's status to closed whether it was open or already
\* closed, never fails, changes no other field and no other event; and no step
\* changes any other field of a QC event or moves one from closed back to open
C7_CloseQcEvent ==
    [][/\ Len(qc_events') >= Len(qc_events)
       /\ \A i \in 1..Len(qc_events) :
             /\ qc_events[i].status = TCerrado => qc_events'[i].status = TCerrado
             /\ [qc_events'[i] EXCEPT !.status = qc_events[i].status] = qc_events[i]
       /\ HandlerStep /\ last'.op = "closeQcEvent" /\ last'.arg # <<"0">> =>
             /\ last'.outcome = "ok"
             /\ Len(qc_events') = Len(qc_events)
             /\ \A i \in 1..Len(qc_events) :
                   qc_events'[i].status =
                      IF qc_events[i].id = ToInt(last'.arg) THEN TCerrado
                      ELSE qc_events[i].status]_vars

\* C7 witness: QC event 1 was registered and then closed twice; it is closed
C7_Witness ==
    /\ last.op = "closeQcEvent" /\ last.outcome = "ok" /\ last.arg = <<"1">>
    /\ Len(qc_events) = 1 /\ qc_events[1].id = 1 /\ qc_events[1].status = TCerrado
    /\ Len(audit) = 3
    /\ audit[2].action = "close" /\ audit[2].entity_id = <<"1">>
    /\ audit[3].action = "close" /\ audit[3].entity_id = <<"1">>

\* C8: usernames stay pairwise distinct, and createUser with a username that exists
\* ends in the caught unique-constraint violation, with users, audit and every
\* other table unchanged
C8_DuplicateUserRejected ==
    [][/\ \A i, j \in 1..Len(users') : i < j => users'[i].username # users'[j].username
       /\ HandlerStep /\ last'.op = "createUser"
            /\ (\E i \in 1..Len(users) : users[i].username = last'.arg) =>
             /\ last'.outcome = "duplicate"
             /\ UNCHANGED tables]_vars

\* C8 witness: user b was created, and creating b again was rejected
C8_Witness ==
    /\ last.op = "createUser" /\ last.outcome = "duplicate" /\ last.arg = <<"b">>
    /\ Len(users) = 2 /\ users[2].username = <<"b">>
    /\ Len(audit) = 1 /\ audit[1].entity = "user"

\* C9: no step changes or removes an existing Audit record, and every record a step
\* adds has an id greater than every id already in the log
C9_AuditAppendOnly ==
    [][/\ Len(audit') >= Len(audit)
       /\ SubSeq(audit', 1, Len(audit)) = audit
       /\ \A i \in (Len(audit) + 1)..Len(audit') :
             \A j \in 1..Len(audit) : audit'[i].id > audit[j].id]_vars

\* C9 witness: the log holds two records, written by different users
C9_Witness ==
    /\ Len(audit) = 2
    /\ audit[1].id < audit[2].id
    /\ audit[1].by_user # audit[2].by_user

\* C10: no step changes or removes a COC row, a new row's id is greater than every
\* existing one, every sample's listing (ordered by id) only ever grows at its end,
\* and an accepted addCocEvent puts its event last in its sample's listing,
\* whatever the timestamps are
C10_CocAppendOnly ==
    [][/\ Len(coc') >= Len(coc)
       /\ SubSeq(coc', 1, Len(coc)) = coc
       /\ \A i \in (Len(coc) + 1)..Len(coc') : \A j \in 1..Len(coc) : coc'[i].id > coc[j].id
       /\ \A sid \in {coc'[i].sample_id : i \in 1..Len(coc')} :
             LET old == CocListing(coc, sid)
                 new == CocListing(coc', sid)
             IN  \/ new = old
                 \/ Len(new) = Len(old) + 1 /\ SubSeq(new, 1, Len(old)) = old
       /\ HandlerStep /\ last'.op = "addCocEvent" /\ last'.outcome = "ok" =>
             LET old == CocListing(coc, last'.arg)
                 new == CocListing(coc', last'.arg)
             IN  /\ Len(new) = Len(old) + 1
                 /\ SubSeq(new, 1, Len(old)) = old
                 /\ new[Len(new)].by_user = user
                 /\ new[Len(new)].at_time = NowTs(year)]_vars

\* C10 witness: two addCocEvent calls on one sample, the second with the earlier
\* timestamp; the listing shows them in call order
C10_Witness ==
    /\ last.op = "addCocEvent" /\ last.outcome = "ok"
    /\ Len(coc) = 2
    /\ coc[1].event = <<"P">> /\ coc[2].event = <<"P">>
    /\ coc[1].sample_id = coc[2].sample_id
    /\ ToInt(coc[1].at_time) > ToInt(coc[2].at_time)
    /\ CocListing(coc, last.arg) = <<coc[1], coc[2]>>
    /\ coc[1].id < coc[2].id

\* C14: in sequential runs every Sample row whose identifier carries the persisted
\* seq_ano has a sequence number no greater than the persisted seq_num, seq_num does
\* not decrease while seq_ano stays the same, and an identifier that next_sample_id
\* hands out has never been handed out before (a consumed one is skipped)
C14_CounterBoundsIssued ==
    [][/\ \A i \in 1..Len(samples') :
             YearOfId(samples'[i].id) = meta'["seq_ano"]
                => SeqOfId(samples'[i].id) <= ToInt(meta'["seq_num"])
       /\ meta'["seq_ano"] = meta["seq_ano"]
             => ToInt(meta'["seq_num"]) >= ToInt(meta["seq_num"])
       /\ Len(issued') = Len(issued) + 1 =>
             \A i \in 1..Len(issued) : issued[i].sid # issued'[Len(issued')].sid]_vars

\* how many rows of t satisfy the test
CountRows(t, Test(_)) == Cardinality({i \in 1..Len(t) : Test(t[i])})

\* C13: the domain row and its audit record are written by separate steps, the row
\* first: no step writes both, a stop of the process inside a handler leaves every
\* table as committed so far, and the log never holds more create records for a
\* sample (or for tests of a sample) than there are such rows
C13_RowBeforeAudit ==
    [][/\ audit' # audit => samples' = samples /\ tests' = tests
       /\ last'.outcome = "crash" /\ ~Idle /\ (\A s \in Sessions : pc'[s] = "idle")
             => UNCHANGED tables
       /\ \A i \in 1..Len(audit') :
             LET a == audit'[i]
                 IsCreate(r) == r.action = "create" /\ r.entity = a.entity
                                   /\ r.entity_id = a.entity_id
                 IsSample(r) == r.id = a.entity_id
                 IsTestOf(r) == r.sample_id = a.entity_id
             IN  /\ a.action = "create" /\ a.entity = "sample"
                       => CountRows(audit', IsCreate) <= CountRows(samples', IsSample)
                 /\ a.action = "create" /\ a.entity = "test"
                       => CountRows(audit', IsCreate) <= CountRows(tests', IsTestOf)]_vars

\* C13 witness: the process stopped after registerSample's INSERT and before its
\* audit call: the Sample row is there and the log is empty
C13_Witness ==
    /\ last.outcome = "crash"
    /\ Idle
    /\ Len(samples) = 1
    /\ audit = <<>>
    /\ coc = <<>>

\* t extends u by rows at the end
IsPrefix(u, t) == Len(u) <= Len(t) /\ \A i \in 1..Len(u) : t[i] = u[i]

\* C12: init_db() never changes a meta value or a row that is already there (so a
\* run on an initialised store changes nothing), a whole run on a store with no meta
\* rows leaves seq_ano at the current year and seq_num at 0, and the first-ever
\* next_sample_id call returns S-<current year>-0001 without error, leaving seq_ano
\* at the current year and seq_num at 1
C12_BootstrapIdempotent ==
    [][/\ HandlerStep /\ last'.op = "init_db" =>
             /\ \A k \in DOMAIN meta : k \in DOMAIN meta' /\ meta'[k] = meta[k]
             /\ IsPrefix(users, users')
             /\ UNCHANGED <<samples, tests, results, attachments, coc, audit, qc_events>>
             /\ DbReady => UNCHANGED tables
             /\ DOMAIN meta = {} /\ last'.outcome = "ok" => meta' = InitMeta(year)
       /\ issued = <<>> /\ Len(issued') = 1 =>
             /\ last'.outcome = "ok"
             /\ issued'[1].sid = FormatId(Str(year), 1)
             /\ Ids(samples') = {FormatId(Str(year), 1)}
             /\ meta' = [seq_ano |-> Str(year), seq_num |-> Str(1)]]_vars

\* C12 witness: init_db() has run in full again after the first registration, in a
\* year after the one the store was created in
C12_Witness ==
    /\ last.op = "init_db" /\ last.outcome = "ok"
    /\ Len(issued) = 1
    /\ DbReady
    /\ meta["seq_num"] = Str(1)
    /\ meta["seq_ano"] # Str(year)

\* C11: the listing the dashboard has just shown holds exactly the samples that have
\* a due date, are due today or within the 7 days after it, and whose status is
\* neither cerrado nor cancelado
C11_DueSoonExact ==
    last.op = "dashboard" =>
        LET today == last.arg
            lim == IsoDate(AddDays(ParseDate(today), DueWindow))
        IN  {df_due[i].sample_id : i \in 1..Len(df_due)}
               = {samples[i].id : i \in {j \in 1..Len(samples) :
                     /\ samples[j].due_at # Null
                     /\ TextLeq(today, samples[j].due_at)
                     /\ TextLeq(samples[j].due_at, lim)
                     /\ samples[j].status \notin {TCerrado, TCancelado}}}

====
